---- MODULE Spec2Model ----
(***************************************************************************)
(* Extraction and validation stage of the air-pollution ETL pipeline:      *)
(* plugins/pipelines/air_pollution/extract.py (validate_data_batch,        *)
(* extract_and_store), the record schema of schemas.py and the storage     *)
(* service of plugins/common/clients/s3_client.py.                         *)
(*                                                                         *)
(* JSON values are tagged records [t |-> type, v |-> integer].  A number   *)
(* of type "float_frac" stands for v + 0.5, every other numeric type for   *)
(* v.  dt values are kept relative to DtOrigin, because the upper bound of *)
(* the schema does not fit a 32-bit integer.                               *)
(***************************************************************************)
EXTENDS Integers, Sequences, FiniteSets, TLC

VARIABLES
    store,      \* the bucket: S3 key -> stored JSON payload
    clock,      \* datetime.now(timezone.utc)
    pc,         \* per invocation: position in extract_and_store
    args,       \* per invocation: city, logical_date, DQ parameters
    data,       \* per invocation: the API response
    vr,         \* per invocation: validation_result
    ops,        \* per invocation: the calls made on s3_service, in order
    outcome,    \* per invocation: returned key or raised exception
    store0,     \* per invocation: the bucket as it was at the call
    bucket0,    \* the bucket before any invocation started
    ti,         \* the DAG run: state of each task instance
    table,      \* the warehouse table air_pollution: its rows
    txn,        \* the call of load_air_pollution_data and its transaction
    tf          \* the call of transform_air_pollution_raw_data

vars == <<store, clock, pc, args, data, vr, ops, outcome, store0, bucket0,
          ti, table, txn, tf>>

\* the state of extract_and_store and of the bucket
extraction == <<store, clock, pc, args, data, vr, ops, outcome, store0, bucket0>>

\* the state of the stages after the extraction and of the DAG run
downstream == <<ti, table, txn, tf>>

-----------------------------------------------------------------------------
(* Bounds of the model *)

MaxBatch == 3

-----------------------------------------------------------------------------
(* JSON values *)

Absent == [t |-> "absent", v |-> 0]
JNull == [t |-> "null", v |-> 0]
JInt(n) == [t |-> "int", v |-> n]
JFloat(n) == [t |-> "float", v |-> n]
JFloatFrac(n) == [t |-> "float_frac", v |-> n]
JNumStr(n) == [t |-> "numstr", v |-> n]
JStr == [t |-> "str", v |-> 0]

-----------------------------------------------------------------------------
(* schemas.py *)

DtOrigin == 1000000000
DtMin == 946681200 - DtOrigin
DtMax == 1524604400
AqiMin == 1
AqiMax == 5
ComponentMin == 0

Pollutants == <<"co", "no", "no2", "o3", "so2", "pm2_5", "pm10", "nh3">>

\* the int field with gt and lt in place of ge and le
IntFieldErrorExclusive(val, lo, hi) ==
    CASE val.t = "absent" -> "missing"
      [] val.t = "null" -> "int_type"
      [] val.t = "str" -> "int_parsing"
      [] val.t = "float_frac" -> "int_from_float"
      [] OTHER -> IF val.v <= lo THEN "greater_than"
                  ELSE IF val.v >= hi THEN "less_than"
                  ELSE "ok"

\* Field(..., ge=lo, le=hi) on an int field in lax mode (strict=False):
\* the error type, or "ok"
IntFieldError(val, lo, hi) ==
    CASE val.t = "absent" -> "missing"
      [] val.t = "null" -> "int_type"
      [] val.t = "str" -> "int_parsing"
      [] val.t = "float_frac" -> "int_from_float"
      [] OTHER -> IF val.v < lo THEN "greater_than_equal"
                  ELSE IF val.v > hi THEN "less_than_equal"
                  ELSE "ok"

\* Field(..., ge=0) on a float field; check_non_negative runs after it and
\* rejects nothing the constraint has let through
FloatFieldError(val) ==
    CASE val.t = "absent" -> "missing"
      [] val.t = "null" -> "float_type"
      [] val.t = "str" -> "float_parsing"
      [] OTHER -> IF val.v < ComponentMin THEN "greater_than_equal" ELSE "ok"

ErrorAt(loc, type) ==
    IF type = "ok" THEN << >> ELSE << [loc |-> loc, type |-> type] >>

RECURSIVE ComponentErrors(_, _)
ComponentErrors(components, i) ==
    IF i > Len(Pollutants) THEN << >>
    ELSE ErrorAt("components." \o Pollutants[i],
                 FloatFieldError(components[Pollutants[i]]))
         \o ComponentErrors(components, i + 1)

\* _MainInfo
MainErrors(record) ==
    IF ~record.has_main THEN ErrorAt("main", "missing")
    ELSE ErrorAt("main.aqi", IntFieldError(record.aqi, AqiMin, AqiMax))

\* _AqiQualityComponents
ComponentsErrors(record) ==
    IF ~record.has_components THEN ErrorAt("components", "missing")
    ELSE ComponentErrors(record.components, 1)

\* AirPollutionRecord.model_validate: err.errors() of the ValidationError,
\* empty when the record validates
ValidationErrors(record) ==
    ErrorAt("dt", IntFieldError(record.dt, DtMin, DtMax))
    \o MainErrors(record) \o ComponentsErrors(record)

AsFloat(val) == IF val.t = "float_frac" THEN val ELSE JFloat(val.v)

\* model_dump(mode="json") of the validated model: coerced values, unknown
\* fields dropped (extra="ignore")
ModelDump(record) ==
    [dt |-> JInt(record.dt.v),
     main |-> [aqi |-> JInt(record.aqi.v)],
     components |-> [c \in DOMAIN record.components |->
                        AsFloat(record.components[c])]]

-----------------------------------------------------------------------------
(* extract.py: validate_data_batch *)

\* the loop, inserting each record at the head of its list
RECURSIVE ValidateLoopPrepend(_, _)
ValidateLoopPrepend(raw_records, ts) ==
    IF raw_records = << >>
    THEN [valid_records |-> << >>, quarantine_records |-> << >>, failed_count |-> 0]
    ELSE LET record == Head(raw_records)
             errors == ValidationErrors(record)
             rest == ValidateLoopPrepend(Tail(raw_records), ts)
         IN  IF errors = << >>
             THEN [rest EXCEPT !.valid_records = @ \o <<ModelDump(record)>>]
             ELSE [rest EXCEPT
                     !.quarantine_records =
                         @ \o <<[error |-> errors, raw |-> record, ts |-> ts]>>,
                     !.failed_count = @ + 1]

\* the loop, quarantining the record without its unknown fields
RECURSIVE ValidateLoopStripped(_, _)
ValidateLoopStripped(raw_records, ts) ==
    IF raw_records = << >>
    THEN [valid_records |-> << >>, quarantine_records |-> << >>, failed_count |-> 0]
    ELSE LET record == Head(raw_records)
             errors == ValidationErrors(record)
             rest == ValidateLoopStripped(Tail(raw_records), ts)
         IN  IF errors = << >>
             THEN [rest EXCEPT !.valid_records = <<ModelDump(record)>> \o @]
             ELSE [rest EXCEPT
                     !.quarantine_records =
                         <<[error |-> errors,
                            raw |-> [record EXCEPT !.extra = Absent],
                            ts |-> ts]>> \o @,
                     !.failed_count = @ + 1]

\* the loop over raw_records: valid_records, quarantine_records, failed_count
RECURSIVE ValidateLoop(_, _)
ValidateLoop(raw_records, ts) ==
    IF raw_records = << >>
    THEN [valid_records |-> << >>, quarantine_records |-> << >>, failed_count |-> 0]
    ELSE LET record == Head(raw_records)
             errors == ValidationErrors(record)
             rest == ValidateLoop(Tail(raw_records), ts)
         IN  IF errors = << >>
             THEN [rest EXCEPT !.valid_records = <<ModelDump(record)>> \o @]
             ELSE [rest EXCEPT
                     !.quarantine_records =
                         <<[error |-> errors, raw |-> record, ts |-> ts]>> \o @,
                     !.failed_count = @ + 1]

\* the rate compared with >= instead of >
IsFailureRateHighNonStrict(failed_count, total_count, threshold_percent) ==
    failed_count * 100 >= threshold_percent * total_count

\* failure_rate > threshold_percent, the rate being failed / total * 100
IsFailureRateHigh(failed_count, total_count, threshold_percent) ==
    failed_count * 100 > threshold_percent * total_count

IsAbsoluteCountHigh(failed_count, min_failed_items) ==
    failed_count >= min_failed_items

\* the gate without the total-failure condition
IsCriticalNoTotalFailure(failed_count, total_count, valid_count, threshold_percent, min_failed_items) ==
    /\ IsFailureRateHigh(failed_count, total_count, threshold_percent)
    /\ IsAbsoluteCountHigh(failed_count, min_failed_items)

\* the gate without the absolute-count condition
IsCriticalRateAlone(failed_count, total_count, valid_count, threshold_percent, min_failed_items) ==
    \/ IsFailureRateHigh(failed_count, total_count, threshold_percent)
    \/ valid_count = 0

IsCritical(failed_count, total_count, valid_count, threshold_percent, min_failed_items) ==
    \/ /\ IsFailureRateHigh(failed_count, total_count, threshold_percent)
       /\ IsAbsoluteCountHigh(failed_count, min_failed_items)
    \/ valid_count = 0

TwoDigits(n) == IF n < 10 THEN "0" \o ToString(n) ELSE ToString(n)

\* the rate cut to hundredths instead of rounded
FormatRateTruncated(failed_count, total_count) ==
    LET hundredths == (failed_count * 10000) \div total_count
    IN  ToString(hundredths \div 100) \o "." \o TwoDigits(hundredths % 100)

\* f"{failure_rate:.2f}": the rate rounded to hundredths
FormatRate(failed_count, total_count) ==
    LET hundredths == (failed_count * 20000 + total_count) \div (2 * total_count)
    IN  ToString(hundredths \div 100) \o "." \o TwoDigits(hundredths % 100)

\* f"{threshold_percent}" of a float holding a whole number
FormatFloat(x) == ToString(x) \o ".0"

FailureReason(failed_count, total_count, threshold_percent, min_failed_items) ==
    "Threshold exceeded: " \o FormatRate(failed_count, total_count)
    \o "% failures (Threshold: " \o FormatFloat(threshold_percent)
    \o "%, MinItems: " \o ToString(min_failed_items) \o ")"

\* the function without its early return, an empty batch counted as a
\* batch with no valid record
validate_data_batch_no_early_return(raw_records, threshold_percent, min_failed_items, now) ==
    LET total_count == Len(raw_records)
        loop == ValidateLoop(raw_records, now)
        is_critical == IsCritical(loop.failed_count, total_count,
                                  Len(loop.valid_records),
                                  threshold_percent, min_failed_items)
    IN  [valid_records |-> loop.valid_records,
         quarantine_records |-> loop.quarantine_records,
         ts_validation |-> now,
         is_critical_failure |-> is_critical,
         failure_reason |->
             IF is_critical
             THEN FailureReason(loop.failed_count,
                                IF total_count = 0 THEN 1 ELSE total_count,
                                threshold_percent, min_failed_items)
             ELSE ""]

validate_data_batch(raw_records, threshold_percent, min_failed_items, now) ==
    LET total_count == Len(raw_records)
        loop == ValidateLoop(raw_records, now)
        is_critical == IsCritical(loop.failed_count, total_count,
                                  Len(loop.valid_records),
                                  threshold_percent, min_failed_items)
    IN  IF total_count = 0
        THEN [valid_records |-> << >>, quarantine_records |-> << >>,
              ts_validation |-> now, is_critical_failure |-> FALSE,
              failure_reason |-> ""]
        ELSE [valid_records |-> loop.valid_records,
              quarantine_records |-> loop.quarantine_records,
              ts_validation |-> now,
              is_critical_failure |-> is_critical,
              failure_reason |->
                  IF is_critical
                  THEN FailureReason(loop.failed_count, total_count,
                                     threshold_percent, min_failed_items)
                  ELSE ""]

-----------------------------------------------------------------------------
(* Inputs *)

\* tests/pipelines/air_pollution/test_extract.py: valid_record_raw
ValidRecordRaw ==
    [dt |-> JInt(1606482000 - DtOrigin), has_main |-> TRUE, aqi |-> JInt(2),
     has_components |-> TRUE,
     components |-> [c \in {Pollutants[i] : i \in DOMAIN Pollutants} |->
                        IF c = "co" THEN JFloat(200) ELSE JFloat(10)],
     extra |-> Absent]

\* a record that validates only after coercion, with an unknown extra field
CoercibleRecordRaw ==
    [dt |-> JNumStr(DtMin), has_main |-> TRUE, aqi |-> JFloat(5),
     has_components |-> TRUE,
     components |-> [c \in {Pollutants[i] : i \in DOMAIN Pollutants} |->
                        IF c = "co" THEN JFloatFrac(0) ELSE JInt(0)],
     extra |-> JStr]

\* tests/pipelines/air_pollution/test_extract.py: invalid_record_raw
InvalidRecordRaw ==
    [dt |-> JInt(1606482000 - DtOrigin), has_main |-> TRUE, aqi |-> JStr,
     has_components |-> FALSE,
     components |-> [c \in {Pollutants[i] : i \in DOMAIN Pollutants} |-> Absent],
     extra |-> Absent]

\* a record with one negative concentration and a timestamp past the bound,
\* with an unknown extra field
OutOfBoundRecordRaw ==
    [ValidRecordRaw EXCEPT !.dt = JInt(DtMax + 1),
                           !.components["pm10"] = JFloat(-1),
                           !.extra = JStr]

RecordPool ==
    {ValidRecordRaw, CoercibleRecordRaw, InvalidRecordRaw, OutOfBoundRecordRaw}

Batches == UNION {[1..n -> RecordPool] : n \in 0..MaxBatch}

Coord == [t |-> "object", lon |-> 50, lat |-> 50]

\* the top-level fields the API response may carry
TopLevelFields == {"coord", "cod", "list"}

Response(fields, batch) ==
    [k \in fields |-> CASE k = "coord" -> Coord
                        [] k = "cod" -> JInt(200)
                        [] k = "list" -> batch]

Responses == {Response(fields, batch) : fields \in SUBSET TopLevelFields,
                                        batch \in Batches}

Cities == {"Berlin", "Paris"}

LogicalDates ==
    {[year |-> 2025, month |-> 1, day |-> 1, timestamp |-> 1735689600]}

Thresholds == {-1, 20, 50, 100}

MinFailedItems == {0, 1, 5}

\* the arguments of a call of extract_and_store
CallArgs ==
    [city : Cities, logical_date : LogicalDates,
     dq_threshold_percent : Thresholds, dq_min_failed_items : MinFailedItems]

Invocations == {"run1", "run2"}

-----------------------------------------------------------------------------
(* s3_client.py: S3Service over a bucket *)

S3ServiceMethods ==
    {"load_json", "load_parquet", "save_df_as_parquet", "save_dict_as_json"}

\* the keys of a dict or of a bucket (the empty one has none)
Keys(dict) == IF dict = << >> THEN {} ELSE DOMAIN dict

\* a put that keeps the object already at the key
PutObjectIfAbsent(bucket, key, body) ==
    [k \in Keys(bucket) \cup {key} |-> IF k \in Keys(bucket) THEN bucket[k] ELSE body]

\* put_object
PutObject(bucket, key, body) ==
    [k \in Keys(bucket) \cup {key} |-> IF k = key THEN body ELSE bucket[k]]

\* the idempotent delete of the storage interface
DeleteObject(bucket, key) ==
    [k \in Keys(bucket) \ {key} |-> bucket[k]]

EmptyBucket == [k \in {} |-> JNull]

-----------------------------------------------------------------------------
(* extract.py: extract_and_store *)

\* dict.get(key), None when the key is absent
Get(dict, key) == IF key \in Keys(dict) THEN dict[key] ELSE JNull

\* the path without its city segment
BasePathNoCity(city, logical_date) ==
    "year=" \o ToString(logical_date.year) \o "/"
    \o "month=" \o TwoDigits(logical_date.month) \o "/"
    \o "day=" \o TwoDigits(logical_date.day) \o "/"
    \o ToString(logical_date.timestamp) \o ".json"

\* the path with month and day not zero-padded
BasePathUnpadded(city, logical_date) ==
    "city=" \o city \o "/"
    \o "year=" \o ToString(logical_date.year) \o "/"
    \o "month=" \o ToString(logical_date.month) \o "/"
    \o "day=" \o ToString(logical_date.day) \o "/"
    \o ToString(logical_date.timestamp) \o ".json"

BasePath(city, logical_date) ==
    "city=" \o city \o "/"
    \o "year=" \o ToString(logical_date.year) \o "/"
    \o "month=" \o TwoDigits(logical_date.month) \o "/"
    \o "day=" \o TwoDigits(logical_date.day) \o "/"
    \o ToString(logical_date.timestamp) \o ".json"

S3KeyQuarantine(city, logical_date) ==
    "bronze/air_pollution_quarantine/" \o BasePath(city, logical_date)

S3KeyValid(city, logical_date) ==
    "bronze/air_pollution/" \o BasePath(city, logical_date)

QuarantineStatus(validation_result) ==
    IF validation_result.is_critical_failure
    THEN "critical_failure" ELSE "partial_faiilure"

QuarantinePayload(validation_result) ==
    [metadata |-> [status |-> QuarantineStatus(validation_result),
                   failure_reason |-> validation_result.failure_reason,
                   processed_at |-> validation_result.ts_validation],
     records |-> validation_result.quarantine_records]

\* the payload carrying the raw list instead of the validated records
ValidPayloadRawList(response, validation_result) ==
    [coord |-> Get(response, "coord"),
     list |-> response["list"],
     metadata |-> [status |-> "valid"]]

ValidPayload(response, validation_result) ==
    [coord |-> Get(response, "coord"),
     list |-> validation_result.valid_records,
     metadata |-> [status |-> "valid"]]

NoArgs == [city |-> "", logical_date |-> [year |-> 0, month |-> 0, day |-> 0, timestamp |-> 0],
           dq_threshold_percent |-> 0, dq_min_failed_items |-> 0]
NoData == Response({}, << >>)
NoResult == validate_data_batch(<< >>, 0, 0, 0)
NoOutcome == [kind |-> "running", value |-> ""]

Call(op, key, payload, ok) == [op |-> op, key |-> key, payload |-> payload, ok |-> ok]

QuarantineKey(p) == S3KeyQuarantine(args[p].city, args[p].logical_date)
ValidKey(p) == S3KeyValid(args[p].city, args[p].logical_date)

Finish(p, kind, value) ==
    /\ pc' = [pc EXCEPT ![p] = "done"]
    /\ outcome' = [outcome EXCEPT ![p] = [kind |-> kind, value |-> value]]

\* step 1: the API client returns a response
FetchReturnsWith(p, call_args, responses) ==
    /\ pc[p] = "idle"
    /\ \E a \in call_args, response \in responses :
          /\ args' = [args EXCEPT ![p] = a]
          /\ data' = [data EXCEPT ![p] = response]
    /\ pc' = [pc EXCEPT ![p] = "fetched"]
    /\ store0' = [store0 EXCEPT ![p] = store]
    /\ UNCHANGED <<store, clock, vr, ops, outcome, bucket0, downstream>>

\* step 1 with the client's error caught and turned into a skip
FetchRaisesSwallowed(p, call_args) ==
    /\ pc[p] = "idle"
    /\ \E a \in call_args : args' = [args EXCEPT ![p] = a]
    /\ Finish(p, "skip", "AirflowSkipException")
    /\ store0' = [store0 EXCEPT ![p] = store]
    /\ UNCHANGED <<store, clock, data, vr, ops, bucket0, downstream>>

\* step 1: the API client raises, the error propagates
FetchRaisesWith(p, call_args) ==
    /\ pc[p] = "idle"
    /\ \E a \in call_args : args' = [args EXCEPT ![p] = a]
    /\ Finish(p, "error", "TransportError")
    /\ store0' = [store0 EXCEPT ![p] = store]
    /\ UNCHANGED <<store, clock, data, vr, ops, bucket0, downstream>>

FetchReturns(p) == FetchReturnsWith(p, CallArgs, Responses)

FetchRaises(p) == FetchRaisesWith(p, CallArgs)

\* the check testing for None only
IsEmptyListNoneOnly(response) == "list" \notin Keys(response)

\* not raw_list
IsEmptyList(response) ==
    IF "list" \in Keys(response) THEN response["list"] = << >> ELSE TRUE

\* step 2: raise AirflowSkipException
SkipEmpty(p) ==
    /\ pc[p] = "fetched"
    /\ IsEmptyList(data[p])
    /\ Finish(p, "skip", "AirflowSkipException")
    /\ UNCHANGED <<store, clock, args, data, vr, ops, store0, bucket0, downstream>>

\* step 3: validate_data_batch(raw_list, dq_threshold_percent, dq_min_failed_items)
Validate(p) ==
    /\ pc[p] = "fetched"
    /\ ~IsEmptyList(data[p])
    /\ vr' = [vr EXCEPT ![p] =
                validate_data_batch(data[p]["list"],
                                    args[p].dq_threshold_percent,
                                    args[p].dq_min_failed_items, clock)]
    /\ clock' = clock + 1
    /\ pc' = [pc EXCEPT ![p] = "quarantine"]
    /\ UNCHANGED <<store, args, data, ops, outcome, store0, bucket0, downstream>>

\* the quarantine branch without its save_dict_as_json call
QuarantineWriteSkipped(p) ==
    /\ pc[p] = "quarantine"
    /\ vr[p].quarantine_records # << >>
    /\ pc' = [pc EXCEPT ![p] = "gate"]
    /\ UNCHANGED <<store, clock, args, data, vr, ops, outcome, store0, bucket0, downstream>>

\* s3_service.save_dict_as_json(quarantine_payload, s3_key_quarantine)
QuarantineWrite(p) ==
    /\ pc[p] = "quarantine"
    /\ vr[p].quarantine_records # << >>
    /\ store' = PutObject(store, QuarantineKey(p), QuarantinePayload(vr[p]))
    /\ ops' = [ops EXCEPT ![p] =
                 Append(@, Call("save_dict_as_json", QuarantineKey(p),
                                QuarantinePayload(vr[p]), TRUE))]
    /\ pc' = [pc EXCEPT ![p] = "gate"]
    /\ UNCHANGED <<clock, args, data, vr, outcome, store0, bucket0, downstream>>

\* the same call, the error of put_object logged and not raised again
QuarantineWriteFailsSwallowed(p) ==
    /\ pc[p] = "quarantine"
    /\ vr[p].quarantine_records # << >>
    /\ ops' = [ops EXCEPT ![p] =
                 Append(@, Call("save_dict_as_json", QuarantineKey(p),
                                QuarantinePayload(vr[p]), FALSE))]
    /\ pc' = [pc EXCEPT ![p] = "gate"]
    /\ UNCHANGED <<store, clock, args, data, vr, outcome, store0, bucket0, downstream>>

\* the same call, put_object raising: save_dict_as_json logs and re-raises
QuarantineWriteFails(p) ==
    /\ pc[p] = "quarantine"
    /\ vr[p].quarantine_records # << >>
    /\ ops' = [ops EXCEPT ![p] =
                 Append(@, Call("save_dict_as_json", QuarantineKey(p),
                                QuarantinePayload(vr[p]), FALSE))]
    /\ Finish(p, "error", "StorageError")
    /\ UNCHANGED <<store, clock, args, data, vr, store0, bucket0, downstream>>

\* s3_service.delete_object(s3_key_quarantine)
QuarantineDelete(p) ==
    /\ pc[p] = "quarantine"
    /\ vr[p].quarantine_records = << >>
    /\ IF "delete_object" \in S3ServiceMethods
       THEN /\ store' = DeleteObject(store, QuarantineKey(p))
            /\ ops' = [ops EXCEPT ![p] =
                         Append(@, Call("delete_object", QuarantineKey(p), JNull, TRUE))]
            /\ pc' = [pc EXCEPT ![p] = "gate"]
            /\ UNCHANGED outcome
       ELSE /\ ops' = [ops EXCEPT ![p] =
                         Append(@, Call("delete_object", QuarantineKey(p), JNull, FALSE))]
            /\ Finish(p, "error", "AttributeError")
            /\ UNCHANGED store
    /\ UNCHANGED <<clock, args, data, vr, store0, bucket0, downstream>>

\* the critical-failure check placed before the quarantine branch
RaiseCriticalEarly(p) ==
    /\ pc[p] \in {"quarantine", "gate"}
    /\ vr[p].is_critical_failure
    /\ Finish(p, "failed", vr[p].failure_reason)
    /\ UNCHANGED <<store, clock, args, data, vr, ops, store0, bucket0, downstream>>

\* the raise preceded by a removal of the valid-data object
RaiseCriticalCleansValid(p) ==
    /\ pc[p] = "gate"
    /\ vr[p].is_critical_failure
    /\ store' = DeleteObject(store, ValidKey(p))
    /\ Finish(p, "failed", vr[p].failure_reason)
    /\ UNCHANGED <<clock, args, data, vr, ops, store0, bucket0, downstream>>

\* raise AirflowFailException(validation_result.failure_reason)
RaiseCritical(p) ==
    /\ pc[p] = "gate"
    /\ vr[p].is_critical_failure
    /\ Finish(p, "failed", vr[p].failure_reason)
    /\ UNCHANGED <<store, clock, args, data, vr, ops, store0, bucket0, downstream>>

\* the valid-data write without the critical-failure check before it
ValidWriteUngated(p) ==
    /\ pc[p] = "gate"
    /\ store' = PutObject(store, ValidKey(p), ValidPayload(data[p], vr[p]))
    /\ ops' = [ops EXCEPT ![p] =
                 Append(@, Call("save_dict_as_json", ValidKey(p),
                                ValidPayload(data[p], vr[p]), TRUE))]
    /\ Finish(p, "returned", ValidKey(p))
    /\ UNCHANGED <<clock, args, data, vr, store0, bucket0, downstream>>

\* the valid-data write on a key that carries the time of the run
ValidWriteVersioned(p) ==
    /\ pc[p] = "gate"
    /\ ~vr[p].is_critical_failure
    /\ store' = PutObject(store, ValidKey(p) \o "." \o ToString(clock),
                          ValidPayload(data[p], vr[p]))
    /\ ops' = [ops EXCEPT ![p] =
                 Append(@, Call("save_dict_as_json",
                                ValidKey(p) \o "." \o ToString(clock),
                                ValidPayload(data[p], vr[p]), TRUE))]
    /\ Finish(p, "returned", ValidKey(p) \o "." \o ToString(clock))
    /\ UNCHANGED <<clock, args, data, vr, store0, bucket0, downstream>>

\* step 5: s3_service.save_dict_as_json(valid_payload, s3_key_valid); return
ValidWrite(p) ==
    /\ pc[p] = "gate"
    /\ ~vr[p].is_critical_failure
    /\ store' = PutObject(store, ValidKey(p), ValidPayload(data[p], vr[p]))
    /\ ops' = [ops EXCEPT ![p] =
                 Append(@, Call("save_dict_as_json", ValidKey(p),
                                ValidPayload(data[p], vr[p]), TRUE))]
    /\ Finish(p, "returned", ValidKey(p))
    /\ UNCHANGED <<clock, args, data, vr, store0, bucket0, downstream>>

ValidWriteFails(p) ==
    /\ pc[p] = "gate"
    /\ ~vr[p].is_critical_failure
    /\ ops' = [ops EXCEPT ![p] =
                 Append(@, Call("save_dict_as_json", ValidKey(p),
                                ValidPayload(data[p], vr[p]), FALSE))]
    /\ Finish(p, "error", "StorageError")
    /\ UNCHANGED <<store, clock, args, data, vr, store0, bucket0, downstream>>

-----------------------------------------------------------------------------
(* One invocation, on a bucket that earlier runs may have written to *)

\* the bucket after an earlier run for Berlin whose batch failed entirely
BucketAfterCriticalRun ==
    PutObject(EmptyBucket,
              S3KeyQuarantine("Berlin", CHOOSE d \in LogicalDates : TRUE),
              QuarantinePayload(validate_data_batch(<<InvalidRecordRaw>>, 20, 5, 0)))

\* the bucket after an earlier run for Berlin with one record quarantined
BucketAfterPartialRun ==
    LET batch == <<ValidRecordRaw, InvalidRecordRaw>>
        result == validate_data_batch(batch, 50, 5, 0)
        date == CHOOSE d \in LogicalDates : TRUE
    IN  PutObject(PutObject(EmptyBucket, S3KeyQuarantine("Berlin", date),
                            QuarantinePayload(result)),
                  S3KeyValid("Berlin", date),
                  ValidPayload(Response({"coord", "list"}, batch), result))

PriorBuckets == {EmptyBucket, BucketAfterCriticalRun, BucketAfterPartialRun}

Init ==
    /\ store \in PriorBuckets
    /\ clock = 1
    /\ pc = [p \in Invocations |-> "idle"]
    /\ args = [p \in Invocations |-> NoArgs]
    /\ data = [p \in Invocations |-> NoData]
    /\ vr = [p \in Invocations |-> NoResult]
    /\ ops = [p \in Invocations |-> << >>]
    /\ outcome = [p \in Invocations |-> NoOutcome]
    /\ store0 = [p \in Invocations |-> EmptyBucket]
    /\ bucket0 = store
    /\ ti = << >>
    /\ table = << >>
    /\ txn = [pc |-> "idle"]
    /\ tf = [pc |-> "idle"]

\* the steps of extract_and_store that follow the fetch
AfterFetch(p) ==
    \/ SkipEmpty(p)
    \/ Validate(p)
    \/ QuarantineWrite(p)
    \/ QuarantineWriteFails(p)
    \/ QuarantineDelete(p)
    \/ RaiseCritical(p)
    \/ ValidWrite(p)
    \/ ValidWriteFails(p)

Step(p) ==
    \/ FetchReturns(p)
    \/ FetchRaises(p)
    \/ AfterFetch(p)

Next == Step("run1")

Spec == Init /\ [][Next]_vars

-----------------------------------------------------------------------------
(* Two invocations running at the same time, as the mapped extract_data     *)
(* tasks of the DAG do                                                      *)

ConcurrentDates ==
    LogicalDates
    \cup {[year |-> 2025, month |-> 11, day |-> 14, timestamp |-> 1763078400]}

ConcurrentCallArgs ==
    [city : Cities, logical_date : ConcurrentDates,
     dq_threshold_percent : {20, 100}, dq_min_failed_items : {1}]

ConcurrentBatches ==
    {<< >>, <<ValidRecordRaw>>, <<InvalidRecordRaw>>,
     <<ValidRecordRaw, InvalidRecordRaw>>,
     <<CoercibleRecordRaw, OutOfBoundRecordRaw>>}

ConcurrentResponses ==
    {Response({"coord", "list"}, batch) : batch \in ConcurrentBatches}

ConcurrentStep(p) ==
    \/ FetchReturnsWith(p, ConcurrentCallArgs, ConcurrentResponses)
    \/ FetchRaisesWith(p, ConcurrentCallArgs)
    \/ AfterFetch(p)

NextConcurrent == \E p \in Invocations : ConcurrentStep(p)

SpecConcurrent == Init /\ [][NextConcurrent]_vars

-----------------------------------------------------------------------------
(* An invocation run again, after it has ended, with the same arguments and *)
(* the same API response, as a retried or re-triggered task does            *)

RerunCallArgs ==
    [city : Cities, logical_date : LogicalDates,
     dq_threshold_percent : {-1, 20, 100}, dq_min_failed_items : {1, 5}]

\* the second run starts when the first has ended
RerunFetchReturns ==
    /\ pc["run1"] = "done"
    /\ "list" \in Keys(data["run1"])
    /\ FetchReturnsWith("run2", {args["run1"]}, {data["run1"]})

RerunStep ==
    \/ FetchReturnsWith("run1", RerunCallArgs, ConcurrentResponses)
    \/ FetchRaisesWith("run1", RerunCallArgs)
    \/ AfterFetch("run1")
    \/ RerunFetchReturns
    \/ AfterFetch("run2")

SpecRerun == Init /\ [][RerunStep]_vars

-----------------------------------------------------------------------------
(* transform.py: transform_air_pollution_raw_data.  A DataFrame is a set of *)
(* column names and a sequence of rows, each a function on the columns.     *)

\* rename_map: source column, new name
RenameMap ==
    <<<<"dt", "date">>, <<"main.aqi", "aqi">>,
      <<"components.no", "no">>, <<"components.no2", "no2">>,
      <<"components.o3", "o3">>, <<"components.so2", "so2">>,
      <<"components.pm2_5", "pm2_5">>, <<"components.pm10", "pm10">>,
      <<"components.nh3", "nh3">>>>

RenameSources == {RenameMap[i][1] : i \in DOMAIN RenameMap}
RenameTargets == {RenameMap[i][2] : i \in DOMAIN RenameMap}
SourceOf(target) ==
    RenameMap[CHOOSE i \in DOMAIN RenameMap : RenameMap[i][2] = target][1]

\* the flattened columns of one record of the list
Flatten(record) ==
    LET cols == {"dt", "main.aqi"}
                \cup {"components." \o c : c \in DOMAIN record.components}
    IN  [col \in cols |->
            CASE col = "dt" -> record.dt
              [] col = "main.aqi" -> record.main.aqi
              [] OTHER -> record.components[
                              CHOOSE c \in DOMAIN record.components :
                                  "components." \o c = col]]

NaN == [t |-> "nan", v |-> 0]

\* pd.json_normalize(raw_data["list"])
JsonNormalize(list) ==
    LET columns == UNION {DOMAIN Flatten(list[i]) : i \in 1..Len(list)}
    IN  [columns |-> columns,
         rows |-> [i \in 1..Len(list) |->
                     [col \in columns |->
                         IF col \in DOMAIN Flatten(list[i])
                         THEN Flatten(list[i])[col] ELSE NaN]]]

\* df[rename_map.keys()].rename(columns=rename_map)
SelectAndRename(df) ==
    [columns |-> RenameTargets,
     rows |-> [i \in 1..Len(df.rows) |->
                 [col \in RenameTargets |-> df.rows[i][SourceOf(col)]]]]

\* df[name] = f(df[source]): a column computed from another
WithColumn(df, name, source, how) ==
    [columns |-> df.columns \cup {name},
     rows |-> [i \in 1..Len(df.rows) |->
                 [col \in df.columns \cup {name} |->
                     IF col = name
                     THEN [t |-> how, v |-> df.rows[i][source].v]
                     ELSE df.rows[i][col]]]]

\* df["city"] = city
WithCity(df, city) ==
    [columns |-> df.columns \cup {"city"},
     rows |-> [i \in 1..Len(df.rows) |->
                 [col \in df.columns \cup {"city"} |->
                     IF col = "city" THEN city ELSE df.rows[i][col]]]]

\* the record of the test fixture malformed_schema_data
MalformedRecord ==
    [dt |-> JInt(1761343200 - DtOrigin), main |-> [aqi |-> JInt(2)],
     components |-> [c \in {"co", "no", "no2", "o3"} |-> JFloat(0)]]

\* the payloads extract_and_store can store at the valid key for the
\* batches of the model
StoredValidPayloads ==
    {ValidPayload(Response(fields, batch), validate_data_batch(batch, 100, 5, 0)) :
        fields \in {{"list"}, {"coord", "list"}},
        batch \in {b \in Batches : \E i \in 1..Len(b) :
                                       ValidationErrors(b[i]) = << >>}}

TransformInputs ==
    StoredValidPayloads
    \cup {[list |-> << >>], [foo |-> << >>], [list |-> <<MalformedRecord>>]}

\* the call
TransformCall ==
    /\ tf.pc = "idle"
    /\ \E raw_data \in TransformInputs, city \in Cities :
          tf' = [pc |-> "called", raw_data |-> raw_data, city |-> city]
    /\ UNCHANGED <<extraction, ti, table, txn>>

\* 1. validation: raise ValueError
TransformRejectsEmpty ==
    /\ tf.pc = "called"
    /\ IsEmptyList(tf.raw_data)
    /\ tf' = [pc |-> "done", raw_data |-> tf.raw_data, city |-> tf.city,
              result |-> "ValueError"]
    /\ UNCHANGED <<extraction, ti, table, txn>>

\* 2. normalization
TransformNormalize ==
    /\ tf.pc = "called"
    /\ ~IsEmptyList(tf.raw_data)
    /\ tf' = [pc |-> "normalized", raw_data |-> tf.raw_data, city |-> tf.city,
              df |-> JsonNormalize(tf.raw_data["list"])]
    /\ UNCHANGED <<extraction, ti, table, txn>>

\* 3. schema validation: raise KeyError
TransformMissingColumns ==
    /\ tf.pc = "normalized"
    /\ RenameSources \ tf.df.columns # {}
    /\ tf' = [pc |-> "done", raw_data |-> tf.raw_data, city |-> tf.city,
              result |-> "KeyError"]
    /\ UNCHANGED <<extraction, ti, table, txn>>

\* 3. column selection and renaming; 4. measured_at and aqi_interpretation
TransformSelect ==
    /\ tf.pc = "normalized"
    /\ RenameSources \ tf.df.columns = {}
    /\ tf' = [tf EXCEPT
                !.pc = "cast",
                !.df = WithColumn(WithColumn(SelectAndRename(@), "measured_at",
                                             "date", "datetime"),
                                  "aqi_interpretation", "aqi", "category")]
    /\ UNCHANGED <<extraction, ti, table, txn>>

\* 4. temporal features read from df["datetime"], then the city column
TransformTemporal ==
    /\ tf.pc = "cast"
    /\ IF "datetime" \in tf.df.columns
       THEN tf' = [pc |-> "done", raw_data |-> tf.raw_data, city |-> tf.city,
                   result |-> "DataFrame",
                   df |-> WithCity(WithColumn(WithColumn(tf.df, "day_of_week",
                                                         "datetime", "day_name"),
                                              "time_of_day", "datetime", "HH:MM"),
                                   tf.city)]
       ELSE tf' = [pc |-> "done", raw_data |-> tf.raw_data, city |-> tf.city,
                   result |-> "KeyError"]
    /\ UNCHANGED <<extraction, ti, table, txn>>

NextTransform ==
    \/ TransformCall
    \/ TransformRejectsEmpty
    \/ TransformNormalize
    \/ TransformMissingColumns
    \/ TransformSelect
    \/ TransformTemporal

InitTransform == Init /\ store = EmptyBucket

SpecTransform == InitTransform /\ [][NextTransform]_vars

-----------------------------------------------------------------------------
(* air_pollution_dag.py: one run of air_pollution_dag.  The body of a task  *)
(* is reduced to its outcome; the scheduler starts a task instance when     *)
(* every instance of every upstream task has succeeded (the default trigger *)
(* rule), a task mapped with expand() having one instance per city.         *)

\* default_args["retries"]
Retries == 2

TaskIds ==
    {"init_schema", "get_cities_config", "extract_data", "transform_data",
     "load_data_to_rds"}

\* the wiring without the dependency of transform_data on extract_data
UpstreamListUnwired(task) ==
    CASE task = "init_schema" -> {}
      [] task = "get_cities_config" -> {"init_schema"}
      [] task = "extract_data" -> {"get_cities_config"}
      [] task = "transform_data" -> {"get_cities_config"}
      [] task = "load_data_to_rds" -> {"transform_data"}

\* task.upstream_list
UpstreamList(task) ==
    CASE task = "init_schema" -> {}
      [] task = "get_cities_config" -> {"init_schema"}
      [] task = "extract_data" -> {"get_cities_config"}
      [] task = "transform_data" -> {"extract_data"}
      [] task = "load_data_to_rds" -> {"transform_data"}

\* the task instances of a run: <<task, city>>, city "" when not mapped
InstancesOf(task) ==
    IF task \in {"extract_data", "transform_data", "load_data_to_rds"}
    THEN {<<task, c>> : c \in Cities}
    ELSE {<<task, "">>}

Instances == UNION {InstancesOf(task) : task \in TaskIds}

UpstreamInstances(inst) ==
    UNION {InstancesOf(task) : task \in UpstreamList(inst[1])}

\* f"silver/air_pollution/city={city}/year=.../{int(ts)}.parquet"
SilverKey(city, logical_date) ==
    "silver/air_pollution/"
    \o "city=" \o city \o "/"
    \o "year=" \o ToString(logical_date.year) \o "/"
    \o "month=" \o TwoDigits(logical_date.month) \o "/"
    \o "day=" \o TwoDigits(logical_date.day) \o "/"
    \o ToString(logical_date.timestamp) \o ".parquet"

\* the value a task instance returns
ReturnValue(inst, logical_date) ==
    CASE inst[1] = "extract_data" ->
             [s3_key_to_raw_data |-> S3KeyValid(inst[2], logical_date),
              city |-> inst[2]]
      [] inst[1] = "transform_data" ->
             [s3_key_to_transformed_data |-> SilverKey(inst[2], logical_date),
              city |-> inst[2]]
      [] OTHER -> JNull

NewDagRun(logical_date) ==
    [logical_date |-> logical_date,
     state |-> [inst \in Instances |-> "none"],
     try_number |-> [inst \in Instances |-> 0],
     xcom |-> [inst \in Instances |-> JNull]]

DagRunCreated ==
    /\ ti = << >>
    /\ \E logical_date \in LogicalDates : ti' = NewDagRun(logical_date)
    /\ UNCHANGED <<extraction, table, txn, tf>>

TaskStarts(inst) ==
    /\ ti # << >>
    /\ ti.state[inst] \in {"none", "up_for_retry"}
    /\ \A up \in UpstreamInstances(inst) : ti.state[up] = "success"
    /\ ti' = [ti EXCEPT !.state[inst] = "running", !.try_number[inst] = @ + 1]
    /\ UNCHANGED <<extraction, table, txn, tf>>

TaskSucceeds(inst) ==
    /\ ti # << >>
    /\ ti.state[inst] = "running"
    /\ ti' = [ti EXCEPT !.state[inst] = "success",
                        !.xcom[inst] = ReturnValue(inst, ti.logical_date)]
    /\ UNCHANGED <<extraction, table, txn, tf>>

\* an exception in the task: retried while tries are left
TaskRaises(inst) ==
    /\ ti # << >>
    /\ ti.state[inst] = "running"
    /\ ti' = [ti EXCEPT !.state[inst] =
                  IF ti.try_number[inst] <= Retries
                  THEN "up_for_retry" ELSE "failed"]
    /\ UNCHANGED <<extraction, table, txn, tf>>

\* extract_and_store raises AirflowSkipException
ExtractSkips(city) ==
    /\ ti # << >>
    /\ ti.state[<<"extract_data", city>>] = "running"
    /\ ti' = [ti EXCEPT !.state[<<"extract_data", city>>] = "skipped"]
    /\ UNCHANGED <<extraction, table, txn, tf>>

\* extract_and_store raises AirflowFailException: failed without retry
ExtractFailsFast(city) ==
    /\ ti # << >>
    /\ ti.state[<<"extract_data", city>>] = "running"
    /\ ti' = [ti EXCEPT !.state[<<"extract_data", city>>] = "failed"]
    /\ UNCHANGED <<extraction, table, txn, tf>>

UpstreamFailed(inst) ==
    /\ ti # << >>
    /\ ti.state[inst] = "none"
    /\ \E up \in UpstreamInstances(inst) :
          ti.state[up] \in {"failed", "upstream_failed"}
    /\ ti' = [ti EXCEPT !.state[inst] = "upstream_failed"]
    /\ UNCHANGED <<extraction, table, txn, tf>>

UpstreamSkipped(inst) ==
    /\ ti # << >>
    /\ ti.state[inst] = "none"
    /\ \A up \in UpstreamInstances(inst) :
          ti.state[up] \notin {"failed", "upstream_failed"}
    /\ \E up \in UpstreamInstances(inst) : ti.state[up] = "skipped"
    /\ ti' = [ti EXCEPT !.state[inst] = "skipped"]
    /\ UNCHANGED <<extraction, table, txn, tf>>

NextDag ==
    \/ DagRunCreated
    \/ \E inst \in Instances : TaskStarts(inst)
    \/ \E inst \in Instances : TaskSucceeds(inst)
    \/ \E inst \in Instances : TaskRaises(inst)
    \/ \E city \in Cities : ExtractSkips(city)
    \/ \E city \in Cities : ExtractFailsFast(city)
    \/ \E inst \in Instances : UpstreamFailed(inst)
    \/ \E inst \in Instances : UpstreamSkipped(inst)

SpecDag == InitTransform /\ [][NextDag]_vars

-----------------------------------------------------------------------------
(* load.py: load_air_pollution_data and postgres_loader.py: load_df.  The   *)
(* table is the sequence of its rows; a DataFrame is a set of column names  *)
(* and a sequence of rows.                                                  *)

\* the hours of the measured_at values of the test DataFrame
MeasuredAts == {10, 12, 14}

\* the most rows of a DataFrame and the most calls in a behaviour
MaxRows == 2
MaxLoads == 2

\* the DataFrames of a city as transform_data stores them, and one without
\* the measured_at column
Frames(city) ==
    {[columns |-> {"city", "measured_at", "aqi"}, rows |-> rows] :
        rows \in UNION {[1..n -> [city : {city}, measured_at : MeasuredAts,
                                   aqi : {1, 2}]] : n \in 0..MaxRows}}
    \cup {[columns |-> {"city", "aqi"}, rows |-> <<[city |-> city, aqi |-> 1]>>]}

\* params of the delete query; min() and max() of an empty column are NaT
CleanupParams(df, city) ==
    LET measured_at == {df.rows[i].measured_at : i \in 1..Len(df.rows)}
    IN  [city |-> city,
         min_datetime |-> IF df.rows = << >> THEN NaN
                          ELSE CHOOSE m \in measured_at : \A n \in measured_at : m <= n,
         max_datetime |-> IF df.rows = << >> THEN NaN
                          ELSE CHOOSE m \in measured_at : \A n \in measured_at : m >= n]

\* the delete query with both comparisons strict
DeleteMatchesStrict(row, params) ==
    /\ row.city = params.city
    /\ row.measured_at > params.min_datetime
    /\ row.measured_at < params.max_datetime

\* WHERE city = :city AND measured_at >= :min_datetime
\*                    AND measured_at <= :max_datetime
DeleteMatches(row, params) ==
    /\ row.city = params.city
    /\ row.measured_at >= params.min_datetime
    /\ row.measured_at <= params.max_datetime

ExecuteDelete(rows, params) ==
    LET Kept(row) == ~DeleteMatches(row, params)
    IN  SelectSeq(rows, Kept)

\* load_air_pollution_data(postgres_loader, df, city)
LoadCall ==
    /\ txn.pc \in {"idle", "returned", "raised"}
    /\ IF txn.pc = "idle" THEN TRUE ELSE txn.calls < MaxLoads
    /\ \E city \in Cities : \E df \in Frames(city) :
          txn' = [pc |-> "called", df |-> df, city |-> city,
                  calls |-> IF txn.pc = "idle" THEN 1 ELSE txn.calls + 1,
                  before |-> table, snapshot |-> table,
                  cleanup_query |-> "", cleanup_params |-> << >>,
                  ops |-> << >>, outcome |-> "",
                  prev |-> IF txn.pc = "idle"
                           THEN [df |-> << >>, city |-> "", outcome |-> "",
                                 after |-> << >>]
                           ELSE [df |-> txn.df, city |-> txn.city,
                                 outcome |-> txn.outcome, after |-> table]]
    /\ UNCHANGED <<extraction, ti, table, tf>>

\* raise ValueError: the loader is not called
LoadRejects ==
    /\ txn.pc = "called"
    /\ "measured_at" \notin txn.df.columns
    /\ txn' = [txn EXCEPT !.pc = "raised", !.outcome = "ValueError"]
    /\ UNCHANGED <<extraction, ti, table, tf>>

\* postgres_loader.load_df(df, cleanup_query=delete_query, cleanup_params=params)
LoadDfCalled ==
    /\ txn.pc = "called"
    /\ "measured_at" \in txn.df.columns
    /\ txn' = [txn EXCEPT !.pc = "load_df",
                          !.cleanup_query = "DELETE",
                          !.cleanup_params = CleanupParams(txn.df, txn.city),
                          !.ops = Append(@, "load_df")]
    /\ UNCHANGED <<extraction, ti, table, tf>>

\* if df.empty: return
LoadDfSkipsEmpty ==
    /\ txn.pc = "load_df"
    /\ txn.df.rows = << >>
    /\ txn' = [txn EXCEPT !.pc = "returned", !.outcome = "skipped"]
    /\ UNCHANGED <<extraction, ti, table, tf>>

\* with self._engine.begin() as conn
Begin ==
    /\ txn.pc = "load_df"
    /\ txn.df.rows # << >>
    /\ txn' = [txn EXCEPT !.pc = "begun", !.snapshot = table,
                          !.ops = Append(@, "begin")]
    /\ UNCHANGED <<extraction, ti, table, tf>>

\* if cleanup_query: conn.execute(text(cleanup_query), cleanup_params)
Cleanup ==
    /\ txn.pc = "begun"
    /\ IF txn.cleanup_query # ""
       THEN /\ table' = ExecuteDelete(table, txn.cleanup_params)
            /\ txn' = [txn EXCEPT !.pc = "cleaned", !.ops = Append(@, "execute")]
       ELSE /\ table' = table
            /\ txn' = [txn EXCEPT !.pc = "cleaned"]
    /\ UNCHANGED <<extraction, ti, tf>>

\* cursor.copy_expert(sql_string, csv_buffer)
CopyExpert ==
    /\ txn.pc = "cleaned"
    /\ table' = table \o txn.df.rows
    /\ txn' = [txn EXCEPT !.pc = "copied", !.ops = Append(@, "copy_expert")]
    /\ UNCHANGED <<extraction, ti, tf>>

\* copy_expert raises and the cleanup stays in the table
CopyRaisesNoRollback ==
    /\ txn.pc = "cleaned"
    /\ table' = table
    /\ txn' = [txn EXCEPT !.pc = "raised", !.outcome = "DatabaseError",
                          !.ops = Append(@, "copy_expert")]
    /\ UNCHANGED <<extraction, ti, tf>>

\* copy_expert raises: the context manager rolls back, the except clause
\* re-raises
CopyRaises ==
    /\ txn.pc = "cleaned"
    /\ table' = txn.snapshot
    /\ txn' = [txn EXCEPT !.pc = "raised", !.outcome = "DatabaseError",
                          !.ops = Append(Append(@, "copy_expert"), "rollback")]
    /\ UNCHANGED <<extraction, ti, tf>>

\* the end of the with block: commit
Commit ==
    /\ txn.pc = "copied"
    /\ txn' = [txn EXCEPT !.pc = "returned", !.outcome = "committed",
                          !.ops = Append(@, "commit")]
    /\ UNCHANGED <<extraction, ti, table, tf>>

NextLoad ==
    \/ LoadCall
    \/ LoadRejects
    \/ LoadDfCalled
    \/ LoadDfSkipsEmpty
    \/ Begin
    \/ Cleanup
    \/ CopyExpert
    \/ CopyRaises
    \/ Commit

SpecLoad == InitTransform /\ [][NextLoad]_vars

-----------------------------------------------------------------------------
(* Vocabulary of the properties *)

\* the invocation has received an API response
Fetched(p) ==
    /\ pc[p] # "idle"
    /\ ~(outcome[p].kind = "error" /\ outcome[p].value = "TransportError")

\* the invocation got past the empty-list check and ran the gate
Validated(p) == Fetched(p) /\ pc[p] # "fetched" /\ outcome[p].kind # "skip"

RawList(p) == data[p]["list"]

Passes(record) == ValidationErrors(record) = << >>
Fails(record) == ValidationErrors(record) # << >>

\* the records of the batch that pass (fail) the schema, in batch order
PassingRecords(p) == SelectSeq(RawList(p), Passes)
FailingRecords(p) == SelectSeq(RawList(p), Fails)

RawOf(entries) == [i \in 1..Len(entries) |-> entries[i].raw]
DumpOf(records) == [i \in 1..Len(records) |-> ModelDump(records[i])]

\* the positions in ops[p] of the calls on a key
CallsOn(p, key) == {i \in 1..Len(ops[p]) : ops[p][i].key = key}

-----------------------------------------------------------------------------
(* C1: for a non-empty batch, is_critical_failure is true exactly when the  *)
(* failure rate is strictly above threshold_percent and the failed count is *)
(* at least min_failed_items, or when no record is valid.                   *)

C1_CriticalIffPolicy ==
    \A p \in Invocations :
        Validated(p) =>
            LET total == Len(RawList(p))
                failed == Len(FailingRecords(p))
                valid == Len(PassingRecords(p))
                threshold == args[p].dq_threshold_percent
                min_items == args[p].dq_min_failed_items
            IN  vr[p].is_critical_failure <=>
                    \/ /\ failed * 100 > threshold * total
                       /\ failed >= min_items
                    \/ valid = 0

\* a batch with a valid record, critical with the failed count equal to the
\* minimum
C1_Witness ==
    \E p \in Invocations :
        /\ Validated(p)
        /\ vr[p].valid_records # << >>
        /\ vr[p].is_critical_failure
        /\ Len(vr[p].quarantine_records) = args[p].dq_min_failed_items

(* C2: every record of a non-empty batch lands in exactly one of            *)
(* valid_records and quarantine_records, each keeping the batch order.      *)

C2_PartitionInOrder ==
    \A p \in Invocations :
        Validated(p) =>
            /\ Len(vr[p].valid_records) + Len(vr[p].quarantine_records)
                   = Len(RawList(p))
            /\ RawOf(vr[p].quarantine_records) = FailingRecords(p)
            /\ vr[p].valid_records = DumpOf(PassingRecords(p))

C2_Witness ==
    \E p \in Invocations :
        /\ Validated(p)
        /\ Len(vr[p].valid_records) = 2
        /\ vr[p].valid_records[1] # vr[p].valid_records[2]
        /\ Len(vr[p].quarantine_records) = 1
        /\ Fails(RawList(p)[2])

(* C3: when extract_and_store raises AirflowFailException, the quarantine   *)
(* payload (status "critical_failure", the failure reason, all the failed   *)
(* records) was written to the quarantine key earlier in the invocation.    *)

C3_EvidenceBeforeFailure ==
    \A p \in Invocations :
        outcome[p].kind = "failed" =>
            /\ Len(ops[p]) >= 1
            /\ ops[p][1] = Call("save_dict_as_json", QuarantineKey(p),
                                ops[p][1].payload, TRUE)
            /\ ops[p][1].payload.metadata.status = "critical_failure"
            /\ ops[p][1].payload.metadata.failure_reason = outcome[p].value
            /\ outcome[p].value # ""
            /\ RawOf(ops[p][1].payload.records) = FailingRecords(p)
            /\ store[QuarantineKey(p)] = ops[p][1].payload

C3_Witness ==
    \E p \in Invocations :
        /\ outcome[p].kind = "failed"
        /\ vr[p].valid_records # << >>
        /\ Len(ops[p][1].payload.records) = 2

(* C4: past the empty-list check, the call on the quarantine key comes      *)
(* before the critical-failure signal and before any write to the valid     *)
(* key.                                                                     *)

C4_QuarantineFirst ==
    \A p \in Invocations :
        (outcome[p].kind = "failed" \/ CallsOn(p, ValidKey(p)) # {}) =>
            /\ 1 \in CallsOn(p, QuarantineKey(p))
            /\ ops[p][1].ok
            /\ \A i \in CallsOn(p, ValidKey(p)) : i > 1

C4_Witness ==
    \E p \in Invocations :
        /\ outcome[p].kind = "returned"
        /\ CallsOn(p, QuarantineKey(p)) = {1}
        /\ CallsOn(p, ValidKey(p)) = {2}

(* C5: when the gate flags a critical failure, no write to the valid-data   *)
(* key happens and no key is returned.                                      *)

C5_NoValidWriteWhenCritical ==
    \A p \in Invocations :
        (Validated(p) /\ vr[p].is_critical_failure) =>
            /\ \A i \in 1..Len(ops[p]) : ops[p][i].key = QuarantineKey(p)
            /\ outcome[p].kind # "returned"
            /\ \A k \in Keys(store) \cup Keys(store0[p]) :
                   k # QuarantineKey(p) =>
                       k \in Keys(store) /\ k \in Keys(store0[p])
                       /\ store[k] = store0[p][k]

C5_Witness ==
    \E p \in Invocations :
        /\ outcome[p].kind = "failed"
        /\ vr[p].is_critical_failure
        /\ vr[p].valid_records # << >>
        /\ ValidKey(p) \in Keys(store)

(* C6: when the list field of the response is absent or empty, the          *)
(* invocation ends in skip, not failure, without any call on the storage    *)
(* service: the bucket is what it was at the call.                          *)

C6_SkipTouchesNothing ==
    \A p \in Invocations :
        (Fetched(p) /\ pc[p] = "done" /\ IF "list" \in Keys(data[p])
                                         THEN RawList(p) = << >> ELSE TRUE) =>
            /\ outcome[p] = [kind |-> "skip", value |-> "AirflowSkipException"]
            /\ ops[p] = << >>
            /\ store = store0[p]

C6_Witness ==
    \E p \in Invocations :
        /\ outcome[p].kind = "skip"
        /\ "list" \in Keys(data[p])
        /\ store # EmptyBucket

C6_WitnessAbsent ==
    \E p \in Invocations :
        /\ outcome[p].kind = "skip"
        /\ "list" \notin Keys(data[p])
        /\ store # EmptyBucket

(* C7: with zero quarantine entries the invocation issues exactly one       *)
(* delete on the quarantine key and no quarantine write, returns with no    *)
(* object left at the quarantine key, and has written the valid payload.    *)

C7_StaleQuarantineRemoved ==
    \A p \in Invocations :
        (/\ pc[p] = "done" /\ Validated(p)
         /\ vr[p].quarantine_records = << >>
         /\ ~vr[p].is_critical_failure
         /\ outcome[p].value # "StorageError") =>
            /\ outcome[p].kind = "returned"
            /\ \A i \in CallsOn(p, QuarantineKey(p)) :
                   ops[p][i].op = "delete_object" /\ ops[p][i].ok
            /\ Cardinality(CallsOn(p, QuarantineKey(p))) = 1
            /\ QuarantineKey(p) \notin Keys(store)
            /\ ValidKey(p) \in Keys(store)
            /\ store[ValidKey(p)] = ValidPayload(data[p], vr[p])

(* C8: the quarantine delete is idempotent: with no object at the           *)
(* quarantine key it does not raise, and the invocation goes on to write    *)
(* the valid payload.                                                       *)

C8_DeleteIdempotent ==
    \A p \in Invocations :
        \A i \in CallsOn(p, QuarantineKey(p)) :
            (/\ ops[p][i].op = "delete_object"
             /\ QuarantineKey(p) \notin Keys(store0[p])) =>
                /\ ops[p][i].ok
                /\ outcome[p].kind # "error"
                /\ (pc[p] = "done" /\ ~vr[p].is_critical_failure) =>
                       CallsOn(p, ValidKey(p)) # {}

(* C9: the quarantine payload carries status "partial_failure" when the     *)
(* batch is not critical and "critical_failure" exactly when it is, with    *)
(* the failed records in order.                                             *)

C9_QuarantineStatus ==
    \A p \in Invocations :
        \A i \in CallsOn(p, QuarantineKey(p)) :
            ops[p][i].op = "save_dict_as_json" =>
                /\ ops[p][i].payload.metadata.status =
                       IF vr[p].is_critical_failure
                       THEN "critical_failure" ELSE "partial_failure"
                /\ RawOf(ops[p][i].payload.records) = FailingRecords(p)

\* the write of the valid payload happened exactly once
ValidWrittenOnce(p) ==
    /\ Cardinality(CallsOn(p, ValidKey(p))) = 1
    /\ \A i \in CallsOn(p, ValidKey(p)) : ops[p][i].op = "save_dict_as_json"

(* C10 as stated: the valid payload holds every top-level field of the      *)
(* response other than list, unchanged, none dropped and none invented,     *)
(* plus list (the valid records in order) and metadata {status: "valid"},   *)
(* and is written once.                                                     *)

-----------------------------------------------------------------------------
(* validate_data_batch called on its own, as the unit tests call it, on     *)
(* batches that include the empty one and records at the schema's bounds    *)

DtCases ==
    {JInt(DtMin - 1), JInt(DtMin), JInt(DtMax), JInt(DtMax + 1),
     JFloat(DtMin), JFloatFrac(DtMin), JNumStr(DtMax), JNumStr(DtMax + 1),
     Absent, JNull, JStr}

AqiCases ==
    {JInt(AqiMin - 1), JInt(AqiMin), JInt(AqiMax), JInt(AqiMax + 1),
     JFloat(AqiMax), JFloatFrac(AqiMin), JNumStr(AqiMin), Absent, JNull, JStr}

ComponentCases ==
    {JFloat(-1), JFloatFrac(-1), JInt(-1), JFloat(0), JInt(0), JFloatFrac(0),
     JNumStr(0), JNumStr(-1), Absent, JNull, JStr}

\* valid_record_raw with one field replaced or removed
BoundaryRecords ==
    {[ValidRecordRaw EXCEPT !.dt = val] : val \in DtCases}
    \cup {[ValidRecordRaw EXCEPT !.aqi = val] : val \in AqiCases}
    \cup {[ValidRecordRaw EXCEPT !.components[Pollutants[i]] = val] :
             i \in DOMAIN Pollutants, val \in ComponentCases}
    \cup {[ValidRecordRaw EXCEPT !.has_main = FALSE],
          [ValidRecordRaw EXCEPT !.has_components = FALSE]}

GateBatches == Batches \cup {<<record>> : record \in BoundaryRecords}

\* validate_data_batch(raw_records, threshold_percent, min_failed_items)
GateCall(p) ==
    /\ pc[p] = "idle"
    /\ \E raw_records \in GateBatches, threshold \in Thresholds,
          min_items \in MinFailedItems :
          /\ args' = [args EXCEPT ![p] =
                        [NoArgs EXCEPT !.dq_threshold_percent = threshold,
                                       !.dq_min_failed_items = min_items]]
          /\ data' = [data EXCEPT ![p] = Response({"list"}, raw_records)]
          /\ vr' = [vr EXCEPT ![p] =
                      validate_data_batch(raw_records, threshold, min_items, clock)]
    /\ clock' = clock + 1
    /\ pc' = [pc EXCEPT ![p] = "result"]
    /\ UNCHANGED <<store, ops, outcome, store0, bucket0, downstream>>

InitGate == Init /\ store = EmptyBucket

NextGate == GateCall("run1")

SpecGate == InitGate /\ [][NextGate]_vars

-----------------------------------------------------------------------------
\* the path below the leading segment, written out for the dates of the model
ExpectedBasePath(p) ==
    "city=" \o args[p].city
    \o (IF args[p].logical_date.month = 1
        THEN "/year=2025/month=01/day=01/1735689600.json"
        ELSE "/year=2025/month=11/day=14/1763078400.json")

\* a call of the quarantine branch (a call that writes the valid payload)
IsQuarantineCall(call) ==
    call.op = "delete_object" \/ "records" \in DOMAIN call.payload
IsValidCall(call) ==
    call.op = "save_dict_as_json" /\ "list" \in DOMAIN call.payload

(* C11: the valid key and the quarantine key are built from one base path   *)
(* that depends on the city and the logical date only (city, year,          *)
(* zero-padded month and day, epoch seconds); they differ only in the       *)
(* leading segment, bronze/air_pollution against                            *)
(* bronze/air_pollution_quarantine, so two invocations for the same city    *)
(* and date use the same keys whatever their batch and DQ parameters; the   *)
(* key returned on success is the valid key that was written.               *)

C11_KeysFromCityAndDate ==
    \A p \in Invocations :
        /\ \A i \in 1..Len(ops[p]) :
               /\ IsQuarantineCall(ops[p][i]) =>
                      ops[p][i].key = "bronze/air_pollution_quarantine/"
                                      \o ExpectedBasePath(p)
               /\ IsValidCall(ops[p][i]) =>
                      ops[p][i].key = "bronze/air_pollution/"
                                      \o ExpectedBasePath(p)
        /\ outcome[p].kind = "returned" =>
               /\ outcome[p].value = "bronze/air_pollution/" \o ExpectedBasePath(p)
               /\ IsValidCall(ops[p][Len(ops[p])])
               /\ ops[p][Len(ops[p])].ok
               /\ ops[p][Len(ops[p])].key = outcome[p].value
        /\ \A q \in Invocations :
               (/\ args[p].city = args[q].city
                /\ args[p].logical_date = args[q].logical_date) =>
                   \A i \in 1..Len(ops[p]), j \in 1..Len(ops[q]) :
                       (IsValidCall(ops[p][i]) <=> IsValidCall(ops[q][j]))
                           => ops[p][i].key = ops[q][j].key

\* two invocations for Berlin on 2025-01-01 with different batches and
\* thresholds, one returning its key and one failing
C11_Witness ==
    /\ outcome["run1"] =
           [kind |-> "returned",
            value |-> "bronze/air_pollution/city=Berlin/year=2025/month=01/day=01/1735689600.json"]
    /\ outcome["run2"].kind = "failed"
    /\ args["run2"].city = "Berlin"
    /\ args["run2"].logical_date.month = 1
    /\ args["run1"].dq_threshold_percent # args["run2"].dq_threshold_percent
    /\ data["run1"] # data["run2"]
    /\ ops["run2"][1].key =
           "bronze/air_pollution_quarantine/city=Berlin/year=2025/month=01/day=01/1735689600.json"

(* C12: for an empty batch validate_data_batch returns empty valid and     *)
(* quarantine lists, is_critical_failure false and an empty failure_reason, *)
(* for every threshold and every min_failed_items.                          *)

C12_EmptyBatchNotCritical ==
    \A p \in Invocations :
        (pc[p] = "result" /\ RawList(p) = << >>) =>
            /\ vr[p].valid_records = << >>
            /\ vr[p].quarantine_records = << >>
            /\ vr[p].is_critical_failure = FALSE
            /\ vr[p].failure_reason = ""

\* the empty batch with a negative threshold and a minimum of zero
C12_Witness ==
    \E p \in Invocations :
        /\ pc[p] = "result"
        /\ RawList(p) = << >>
        /\ args[p].dq_threshold_percent < 0
        /\ args[p].dq_min_failed_items = 0

(* C13 as stated: for every batch in which failed_count is below            *)
(* min_failed_items, validate_data_batch returns is_critical_failure =      *)
(* false, small batches where a single bad record is a 100% failure rate    *)
(* included.                                                                *)

C13_BelowMinNeverCritical ==
    \A p \in Invocations :
        (/\ pc[p] = "result"
         /\ Len(FailingRecords(p)) < args[p].dq_min_failed_items) =>
            vr[p].is_critical_failure = FALSE

(* C13 amended: for every batch with at least one valid record in which     *)
(* failed_count is below min_failed_items, is_critical_failure is false     *)
(* whatever the failure rate; a non-empty batch with no valid record is     *)
(* critical even when failed_count is below min_failed_items.               *)

C13_BelowMinNotCriticalUnlessTotal ==
    \A p \in Invocations :
        (/\ pc[p] = "result"
         /\ RawList(p) # << >>
         /\ Len(FailingRecords(p)) < args[p].dq_min_failed_items) =>
            (vr[p].is_critical_failure <=> Len(PassingRecords(p)) = 0)

\* one valid record and two failed ones, the rate above the threshold and
\* the failed count below the minimum
C13_Witness ==
    \E p \in Invocations :
        /\ pc[p] = "result"
        /\ Len(PassingRecords(p)) = 1
        /\ Len(FailingRecords(p)) = 2
        /\ args[p].dq_threshold_percent = 50
        /\ args[p].dq_min_failed_items = 5
        /\ ~vr[p].is_critical_failure

(* C14: every non-empty batch in which no record passes validation is a    *)
(* critical failure, for every threshold_percent (100 included) and every   *)
(* min_failed_items (values above the batch size included); unless the      *)
(* quarantine write itself raises, extract_and_store ends in                *)
(* AirflowFailException, and it never writes a valid payload.               *)

C15_NoValidRecordSkips ==
    \A p \in Invocations :
        (/\ Validated(p) /\ pc[p] = "done"
         /\ PassingRecords(p) = << >>
         /\ outcome[p].value # "StorageError") =>
            outcome[p] = [kind |-> "skip", value |-> "AirflowSkipException"]

\* f"{failure_rate:.2f}" for the counts of the model, as Python prints it
RateText(failed_count, total_count) ==
    CASE failed_count = 0 -> "0.00"
      [] failed_count = total_count -> "100.00"
      [] <<failed_count, total_count>> = <<1, 2>> -> "50.00"
      [] <<failed_count, total_count>> = <<1, 3>> -> "33.33"
      [] <<failed_count, total_count>> = <<2, 3>> -> "66.67"
      [] <<failed_count, total_count>> = <<1, 4>> -> "25.00"
      [] <<failed_count, total_count>> = <<2, 4>> -> "50.00"
      [] <<failed_count, total_count>> = <<3, 4>> -> "75.00"
      [] <<failed_count, total_count>> = <<1, 5>> -> "20.00"
      [] <<failed_count, total_count>> = <<2, 5>> -> "40.00"
      [] <<failed_count, total_count>> = <<3, 5>> -> "60.00"
      [] <<failed_count, total_count>> = <<4, 5>> -> "80.00"

\* f"{threshold_percent}" for the thresholds of the model
ThresholdText(threshold_percent) ==
    CASE threshold_percent = -1 -> "-1.0"
      [] threshold_percent = 20 -> "20.0"
      [] threshold_percent = 50 -> "50.0"
      [] threshold_percent = 100 -> "100.0"

(* C16: failure_reason is non-empty exactly when is_critical_failure is     *)
(* true; when critical it names the failure rate with two decimals, the     *)
(* threshold and min_failed_items, also when the batch is critical through  *)
(* total failure only; the exception raised by extract_and_store and the    *)
(* failure_reason of the quarantine metadata carry the same string.         *)

C16_ReasonIffCritical ==
    \A p \in Invocations :
        Validated(p) =>
            /\ vr[p].failure_reason # "" <=> vr[p].is_critical_failure
            /\ vr[p].is_critical_failure =>
                   vr[p].failure_reason =
                       "Threshold exceeded: "
                       \o RateText(Len(FailingRecords(p)), Len(RawList(p)))
                       \o "% failures (Threshold: "
                       \o ThresholdText(args[p].dq_threshold_percent)
                       \o "%, MinItems: "
                       \o ToString(args[p].dq_min_failed_items) \o ")"
            /\ outcome[p].kind = "failed" =>
                   outcome[p].value = vr[p].failure_reason
            /\ \A i \in 1..Len(ops[p]) :
                   ops[p][i].op = "save_dict_as_json" /\ IsQuarantineCall(ops[p][i])
                       => ops[p][i].payload.metadata.failure_reason
                              = vr[p].failure_reason
            /\ (pc[p] \in {"gate", "done"} /\ vr[p].quarantine_records # << >>
                   /\ ops[p][1].ok) =>
                   store[QuarantineKey(p)].metadata.failure_reason
                       = vr[p].failure_reason

\* a batch critical through total failure only: the rate does not exceed
\* the threshold of 100
C16_Witness ==
    \E p \in Invocations :
        /\ outcome[p] =
               [kind |-> "failed",
                value |-> "Threshold exceeded: 100.00% failures (Threshold: 100.0%, MinItems: 5)"]
        /\ store[QuarantineKey(p)].metadata.failure_reason = outcome[p].value

\* a batch critical through rate and count, the rate not a whole number
C16_WitnessRounded ==
    \E p \in Invocations :
        outcome[p] =
            [kind |-> "failed",
             value |-> "Threshold exceeded: 66.67% failures (Threshold: 50.0%, MinItems: 1)"]

(* C17: when the API client raises a transport or HTTP error,              *)
(* extract_and_store ends with that error, unmodified, without validating   *)
(* anything and without any call on the storage service: the step that      *)
(* ends an invocation at the fetch leaves bucket, clock and validation      *)
(* result as they were.                                                     *)

C17_ClientErrorPropagates ==
    [][\A p \in Invocations :
          /\ (pc[p] = "idle" /\ pc'[p] = "done") =>
                 /\ outcome'[p] = [kind |-> "error", value |-> "TransportError"]
                 /\ UNCHANGED <<store, clock, data, vr, ops>>
          /\ outcome'[p] = [kind |-> "error", value |-> "TransportError"] =>
                 /\ ops'[p] = << >>
                 /\ vr'[p] = NoResult
                 /\ data'[p] = NoData
                 /\ store' = store0'[p]
                 /\ store' = bucket0']_vars

\* the client's error ends an invocation on a bucket holding earlier objects
C17_Witness ==
    \E p \in Invocations :
        /\ outcome[p] = [kind |-> "error", value |-> "TransportError"]
        /\ pc[p] = "done"
        /\ Keys(store) # {}
        /\ ops[p] = << >>

\* the value is a whole number, given as such or as a float or a numeric
\* string holding one
IsWholeNumber(val) == val.t \in {"int", "float", "numstr"}

\* the value is a number not below zero (a "float_frac" is v + 0.5)
IsNonNegativeNumber(val) ==
    val.t \in {"int", "float", "float_frac", "numstr"} /\ val.v >= 0

\* the acceptance condition of the record validator
Accepts(record) ==
    /\ IsWholeNumber(record.dt)
    /\ record.dt.v >= 946681200 - DtOrigin
    /\ record.dt.v <= 1524604400
    /\ record.has_main
    /\ IsWholeNumber(record.aqi)
    /\ record.aqi.v >= 1
    /\ record.aqi.v <= 5
    /\ record.has_components
    /\ \A i \in DOMAIN Pollutants :
           IsNonNegativeNumber(record.components[Pollutants[i]])

Rejects(record) == ~Accepts(record)

(* C18: the validator accepts a record exactly when dt is present and a    *)
(* whole number in [946681200, 2524604400], bounds included, main.aqi is    *)
(* present and a whole number in [1, 5], and all eight components are       *)
(* present and not below 0 (0 accepted); every other record goes to         *)
(* quarantine, and a valid record carries the values of its raw record,     *)
(* none of them defaulted.                                                  *)

C18_AcceptsIffWithinBounds ==
    \A p \in Invocations :
        pc[p] = "result" =>
            LET accepted == SelectSeq(RawList(p), Accepts)
                rejected == SelectSeq(RawList(p), Rejects)
            IN  /\ RawOf(vr[p].quarantine_records) = rejected
                /\ Len(vr[p].valid_records) = Len(accepted)
                /\ \A i \in 1..Len(accepted) :
                       /\ vr[p].valid_records[i].dt.v = accepted[i].dt.v
                       /\ vr[p].valid_records[i].main.aqi.v = accepted[i].aqi.v
                       /\ \A j \in DOMAIN Pollutants :
                              LET dumped == vr[p].valid_records[i].components[Pollutants[j]]
                                  raw == accepted[i].components[Pollutants[j]]
                              IN  /\ dumped.v = raw.v
                                  /\ dumped.t = "float_frac" <=> raw.t = "float_frac"

\* a record with dt at the upper bound is accepted
C18_Witness ==
    \E p \in Invocations :
        /\ pc[p] = "result"
        /\ Len(RawList(p)) = 1
        /\ RawList(p)[1].dt = JInt(1524604400)
        /\ Len(vr[p].valid_records) = 1
        /\ vr[p].valid_records[1].dt = JInt(1524604400)

\* a record with one concentration of 0 is accepted
C18_WitnessZero ==
    \E p \in Invocations :
        /\ pc[p] = "result"
        /\ Len(RawList(p)) = 1
        /\ RawList(p)[1].components["pm10"] = JFloat(0)
        /\ Len(vr[p].valid_records) = 1

(* C19: every quarantine entry holds its raw record as it came, unknown     *)
(* extra fields included, and a non-empty error list; all entries of a      *)
(* batch carry one timestamp, which is the ts_validation of the result and  *)
(* the processed_at of the quarantine payload metadata.                     *)

C19_QuarantineEntryVerbatim ==
    \A p \in Invocations :
        Validated(p) =>
            /\ Len(vr[p].quarantine_records) = Len(FailingRecords(p))
            /\ \A i \in 1..Len(vr[p].quarantine_records) :
                   /\ vr[p].quarantine_records[i].raw = FailingRecords(p)[i]
                   /\ vr[p].quarantine_records[i].error # << >>
                   /\ vr[p].quarantine_records[i].ts = vr[p].ts_validation
            /\ \A i \in 1..Len(ops[p]) :
                   "records" \in DOMAIN ops[p][i].payload =>
                       /\ ops[p][i].payload.metadata.processed_at
                              = vr[p].ts_validation
                       /\ ops[p][i].payload.records = vr[p].quarantine_records
                       /\ ops[p][i].ok => store[ops[p][i].key] = ops[p][i].payload

\* a stored quarantine payload with two entries, the second with an unknown
\* extra field, written by an invocation that returned
C19_Witness ==
    \E p \in Invocations :
        /\ outcome[p].kind = "returned"
        /\ Len(store[QuarantineKey(p)].records) = 2
        /\ store[QuarantineKey(p)].records[1].raw.extra = Absent
        /\ store[QuarantineKey(p)].records[2].raw.extra = JStr
        /\ store[QuarantineKey(p)].records[2].ts
               = store[QuarantineKey(p)].metadata.processed_at
        /\ store[QuarantineKey(p)].metadata.processed_at = vr[p].ts_validation

\* the effect on a bucket of one call on the storage service
ApplyCall(bucket, call) ==
    IF ~call.ok THEN bucket
    ELSE IF call.op = "save_dict_as_json"
         THEN PutObject(bucket, call.key, call.payload)
         ELSE DeleteObject(bucket, call.key)

\* the effect of a sequence of calls, in order
RECURSIVE ApplyCalls(_, _)
ApplyCalls(bucket, calls) ==
    IF calls = << >> THEN bucket
    ELSE ApplyCalls(ApplyCall(bucket, Head(calls)), Tail(calls))

\* the keys an invocation has called the storage service on
TouchedKeys(p) == {ops[p][i].key : i \in 1..Len(ops[p])}

(* C20: two invocations for different cities, on the same or on different  *)
(* logical dates, running at the same time with their storage calls         *)
(* interleaved in any order, touch disjoint sets of keys; the bucket is     *)
(* what running the two one after the other, in either order, gives.        *)

C20_DifferentCitiesIndependent ==
    \A p, q \in Invocations :
        (/\ p # q
         /\ pc[p] # "idle" /\ pc[q] # "idle"
         /\ args[p].city # args[q].city) =>
            /\ TouchedKeys(p) \cap TouchedKeys(q) = {}
            /\ {QuarantineKey(p), ValidKey(p)}
                   \cap {QuarantineKey(q), ValidKey(q)} = {}
            /\ store = ApplyCalls(ApplyCalls(bucket0, ops[p]), ops[q])
            /\ \A k \in Keys(store) \cup Keys(bucket0) :
                   k \notin TouchedKeys(p) \cup TouchedKeys(q) =>
                       k \in Keys(store) /\ k \in Keys(bucket0)
                       /\ store[k] = bucket0[k]

\* Berlin and Paris on the same date, both started before either wrote,
\* one returning after two writes and one failing after its quarantine write
C20_Witness ==
    /\ pc["run1"] = "done" /\ pc["run2"] = "done"
    /\ args["run1"].city = "Berlin" /\ args["run2"].city = "Paris"
    /\ args["run1"].logical_date = args["run2"].logical_date
    /\ store0["run1"] = bucket0 /\ store0["run2"] = bucket0
    /\ outcome["run1"].kind = "returned"
    /\ outcome["run2"].kind = "failed"
    /\ Len(ops["run1"]) = 2 /\ Len(ops["run2"]) = 1
    /\ vr["run2"].ts_validation < vr["run1"].ts_validation
    /\ Keys(bucket0) # {}

\* the artifacts a bucket holds at the two keys of an invocation
ArtifactPair(bucket, p) ==
    <<Get(bucket, QuarantineKey(p)), Get(bucket, ValidKey(p))>>

\* the buckets that running p alone, q alone, p then q, or q then p gives
SerialOutcomes(p, q) ==
    {ApplyCalls(bucket0, ops[p]), ApplyCalls(bucket0, ops[q]),
     ApplyCalls(ApplyCalls(bucket0, ops[p]), ops[q]),
     ApplyCalls(ApplyCalls(bucket0, ops[q]), ops[p])}

\* both invocations returned, for the same city and logical date, and the
\* bucket holds the quarantine artifact of q next to the valid artifact of p
MixedArtifacts(p, q) ==
    /\ p # q
    /\ outcome[p].kind = "returned" /\ outcome[q].kind = "returned"
    /\ args[p].city = args[q].city
    /\ args[p].logical_date = args[q].logical_date
    /\ RawOf(ops[p][1].payload.records) # RawOf(ops[q][1].payload.records)
    /\ ops[p][2].payload # ops[q][2].payload
    /\ store[QuarantineKey(p)] = ops[q][1].payload
    /\ store[ValidKey(p)] = ops[p][2].payload

(* C21: two invocations for the same city and logical date running at the   *)
(* same time are not safe against each other.  Every successful write       *)
(* replaces the object at its key whoever wrote it (last writer wins, key   *)
(* by key); with different batches the bucket can end up holding the        *)
(* quarantine artifact of one invocation next to the valid artifact of the  *)
(* other, and that pair is the outcome of neither invocation alone nor of   *)
(* either sequential order.                                                 *)

C21_SameCityRace ==
    /\ [](\A p, q \in Invocations :
             MixedArtifacts(p, q) =>
                 \A bucket \in SerialOutcomes(p, q) :
                     ArtifactPair(store, p) # ArtifactPair(bucket, p))
    /\ [][\A p \in Invocations :
             (/\ Len(ops'[p]) = Len(ops[p]) + 1
              /\ ops'[p][Len(ops'[p])].ok) =>
                 /\ ops'[p][Len(ops'[p])].op = "save_dict_as_json"
                 /\ store' = [k \in Keys(store) \cup {ops'[p][Len(ops'[p])].key} |->
                                 IF k = ops'[p][Len(ops'[p])].key
                                 THEN ops'[p][Len(ops'[p])].payload
                                 ELSE store[k]]]_vars

\* Berlin twice on the same date: the quarantine artifact is that of run2,
\* the valid artifact that of run1
C21_Witness ==
    /\ MixedArtifacts("run1", "run2")
    /\ args["run1"].city = "Berlin"
    /\ Len(ops["run1"]) = 2 /\ Len(ops["run2"]) = 2
    /\ \A bucket \in SerialOutcomes("run1", "run2") :
           ArtifactPair(store, "run1") # ArtifactPair(bucket, "run1")

\* a stored payload with its validation timestamps blanked
StripTimestamps(payload) ==
    IF "records" \in DOMAIN payload
    THEN [payload EXCEPT
            !.metadata.processed_at = 0,
            !.records = [i \in 1..Len(@) |-> [@[i] EXCEPT !.ts = 0]]]
    ELSE payload

WithoutTimestamps(bucket) ==
    [k \in Keys(bucket) |-> StripTimestamps(bucket[k])]

\* the invocation ended without an error raised by put_object
NoStorageError(p) == pc[p] = "done" /\ outcome[p].value # "StorageError"

(* C22: running extract_and_store a second time, after the first run, with  *)
(* the same city, logical date, DQ parameters and API response leaves the   *)
(* bucket with the keys and contents it had after the first run, validation *)
(* timestamps aside, and ends in the same outcome, whatever the bucket held *)
(* before the first run.                                                    *)

C22_RerunIdempotent ==
    (NoStorageError("run1") /\ NoStorageError("run2")) =>
        /\ args["run2"] = args["run1"] /\ data["run2"] = data["run1"]
        /\ outcome["run2"] = outcome["run1"]
        /\ WithoutTimestamps(store) = WithoutTimestamps(store0["run2"])
        /\ Keys(store) = Keys(store0["run2"])

\* both runs wrote a quarantine and a valid payload over Berlin's earlier
\* objects; the second run's payloads differ in their timestamps only
C22_Witness ==
    /\ NoStorageError("run1") /\ NoStorageError("run2")
    /\ outcome["run2"].kind = "returned"
    /\ Len(ops["run1"]) = 2 /\ Len(ops["run2"]) = 2
    /\ QuarantineKey("run1") \in Keys(bucket0)
    /\ store # store0["run2"]
    /\ store0["run2"] # bucket0

\* both runs ended in the critical failure
C22_WitnessCritical ==
    /\ NoStorageError("run1") /\ NoStorageError("run2")
    /\ outcome["run2"].kind = "failed"
    /\ store # store0["run2"]

(* C27: when the call on the quarantine key, write or delete, raises,       *)
(* extract_and_store ends with that error: it is the only call of the       *)
(* invocation, no valid-data write follows, AirflowFailException is not     *)
(* raised in its place, nothing is retried or undone, and the bucket is as  *)
(* it was.                                                                  *)

C27_QuarantineErrorPropagates ==
    \A p \in Invocations :
        \A i \in 1..Len(ops[p]) :
            (IsQuarantineCall(ops[p][i]) /\ ~ops[p][i].ok) =>
                /\ pc[p] = "done"
                /\ outcome[p].kind = "error"
                /\ outcome[p].value =
                       IF ops[p][i].op = "save_dict_as_json"
                       THEN "StorageError" ELSE "AttributeError"
                /\ Len(ops[p]) = 1
                /\ store = store0[p]

\* the write of the quarantine payload of a critical batch raises: the
\* invocation ends in the storage error, not in AirflowFailException
C27_Witness ==
    \E p \in Invocations :
        /\ outcome[p] = [kind |-> "error", value |-> "StorageError"]
        /\ vr[p].is_critical_failure
        /\ ops[p][1].op = "save_dict_as_json"
        /\ ~ops[p][1].ok
        /\ ops[p][1].key = QuarantineKey(p)

(* C28: an invocation whose batch is a critical failure leaves the          *)
(* valid-data key as it was: an object written there by an earlier run for  *)
(* the same city and logical date is neither deleted nor overwritten, so    *)
(* the bucket can hold a "valid" artifact next to a "critical_failure"      *)
(* quarantine artifact of the same partition.                               *)

C28_CriticalKeepsValidArtifact ==
    \A p \in Invocations :
        (Validated(p) /\ vr[p].is_critical_failure) =>
            /\ CallsOn(p, ValidKey(p)) = {}
            /\ ValidKey(p) \in Keys(store) <=> ValidKey(p) \in Keys(store0[p])
            /\ ValidKey(p) \in Keys(store) =>
                   store[ValidKey(p)] = store0[p][ValidKey(p)]

\* after the failure the earlier run's valid artifact stands next to the
\* quarantine artifact of the failed run
C28_Witness ==
    \E p \in Invocations :
        /\ outcome[p].kind = "failed"
        /\ ValidKey(p) \in Keys(store) \cap Keys(bucket0)
        /\ store[ValidKey(p)].metadata.status = "valid"
        /\ store[ValidKey(p)] = bucket0[ValidKey(p)]
        /\ store[QuarantineKey(p)].metadata.status = "critical_failure"
        /\ store[QuarantineKey(p)] = ops[p][1].payload

\* the number of quarantine records the invocation has written
QuarantineRecordsWritten(p) ==
    IF \E i \in 1..Len(ops[p]) :
           ops[p][i].op = "save_dict_as_json" /\ IsQuarantineCall(ops[p][i])
    THEN Len(ops[p][1].payload.records)
    ELSE 0

(* C29: every valid payload written by extract_and_store has a non-empty    *)
(* list: a batch without a valid record never reaches the valid-data write; *)
(* an invocation that returns a key has stored at least one validated       *)
(* record, and the length of the stored list plus the number of quarantine  *)
(* records written by the invocation is the length of the API list.         *)

C29_ValidPayloadNonEmpty ==
    \A p \in Invocations :
        /\ \A i \in 1..Len(ops[p]) :
               IsValidCall(ops[p][i]) =>
                   /\ ops[p][i].payload.list # << >>
                   /\ PassingRecords(p) # << >>
        /\ outcome[p].kind = "returned" =>
               /\ Len(store[outcome[p].value].list) >= 1
               /\ Len(store[outcome[p].value].list) + QuarantineRecordsWritten(p)
                      = Len(RawList(p))

\* one valid record stored out of three, with threshold 100
C29_Witness ==
    \E p \in Invocations :
        /\ outcome[p].kind = "returned"
        /\ Len(RawList(p)) = 3
        /\ Len(store[outcome[p].value].list) = 1
        /\ QuarantineRecordsWritten(p) = 2
        /\ args[p].dq_threshold_percent = 100

(* C30: every invocation that gets past the empty-list check performs       *)
(* exactly one operation of the storage service on the quarantine key, a    *)
(* write when there is a quarantine entry and a delete otherwise, and at    *)
(* most one write on the valid key: at most two operations; it ends in a    *)
(* returned key, a skip, a critical failure or a propagated collaborator    *)
(* error.                                                                   *)

C30_OneQuarantineOperation ==
    \A p \in Invocations :
        /\ (Validated(p) /\ pc[p] \in {"gate", "done"}) =>
               /\ Cardinality(CallsOn(p, QuarantineKey(p))) = 1
               /\ \A i \in CallsOn(p, QuarantineKey(p)) :
                      /\ ops[p][i].op \in S3ServiceMethods \cup {"delete_object"}
                      /\ ops[p][i].op = "delete_object" => ops[p][i].ok
                      /\ ops[p][i].op = "save_dict_as_json"
                             <=> vr[p].quarantine_records # << >>
               /\ Cardinality(CallsOn(p, ValidKey(p))) <= 1
               /\ Len(ops[p]) <= 2
        /\ pc[p] = "done" =>
               \/ outcome[p].kind \in {"returned", "skip", "failed"}
               \/ /\ outcome[p].kind = "error"
                  /\ outcome[p].value \in {"TransportError", "StorageError"}

(* C26: for every valid payload extract_and_store can write,               *)
(* transform_air_pollution_raw_data completes without error and returns one *)
(* row per record, in order, with the city column set to the given city and *)
(* the columns co, measured_at, aqi_interpretation, day_of_week and         *)
(* time_of_day present; it raises ValueError when list is missing or empty  *)
(* and KeyError when an expected component column is missing.               *)

C26_TransformCompletes ==
    tf.pc = "done" =>
        /\ IsEmptyList(tf.raw_data) <=> tf.result = "ValueError"
        /\ tf.raw_data = [list |-> <<MalformedRecord>>] => tf.result = "KeyError"
        /\ tf.raw_data \in StoredValidPayloads =>
               /\ tf.result = "DataFrame"
               /\ Len(tf.df.rows) = Len(tf.raw_data["list"])
               /\ {"co", "measured_at", "aqi_interpretation", "day_of_week",
                   "time_of_day", "city"} \subseteq tf.df.columns
               /\ \A i \in 1..Len(tf.df.rows) :
                      /\ tf.df.rows[i]["city"] = tf.city
                      /\ tf.df.rows[i]["co"] = tf.raw_data["list"][i].components["co"]
                      /\ tf.df.rows[i]["measured_at"].v = tf.raw_data["list"][i].dt.v

(* C23: in every run of air_pollution_dag the tasks execute in the order    *)
(* init_schema, get_cities_config, then per city extract_data before        *)
(* transform_data before load_data_to_rds; no transform or load for a city  *)
(* starts before that city's extract has completed successfully and         *)
(* returned its key.                                                        *)

C23_TaskOrder ==
    LET HasStarted(inst) ==
            ti.state[inst] \in {"running", "up_for_retry", "success", "failed"}
        Succeeded(inst) == ti.state[inst] = "success"
    IN
    ti # << >> =>
        /\ HasStarted(<<"get_cities_config", "">>) => Succeeded(<<"init_schema", "">>)
        /\ \A c \in Cities :
              /\ HasStarted(<<"extract_data", c>>)
                    => Succeeded(<<"get_cities_config", "">>)
              /\ HasStarted(<<"transform_data", c>>)
                    => /\ Succeeded(<<"extract_data", c>>)
                       /\ ti.xcom[<<"extract_data", c>>]
                              = [s3_key_to_raw_data |-> S3KeyValid(c, ti.logical_date),
                                 city |-> c]
              /\ HasStarted(<<"load_data_to_rds", c>>)
                    => /\ Succeeded(<<"transform_data", c>>)
                       /\ Succeeded(<<"extract_data", c>>)

C23_Witness ==
    /\ ti # << >>
    /\ \E c \in Cities :
          /\ ti.state[<<"load_data_to_rds", c>>] = "running"
          /\ ti.state[<<"extract_data", c>>] = "success"
          /\ ti.xcom[<<"extract_data", c>>].s3_key_to_raw_data
                 = S3KeyValid(c, ti.logical_date)
          /\ ti.try_number[<<"transform_data", c>>] = 2

(* C24: load_air_pollution_data is delete-then-insert idempotent: the       *)
(* cleanup deletes exactly the rows of the given city whose measured_at     *)
(* lies between the least and the greatest measured_at of the DataFrame,    *)
(* both included, before the bulk insert; loading the same DataFrame for    *)
(* the same city twice leaves the same rows as loading it once; rows of     *)
(* other cities are never touched; a DataFrame without a measured_at column *)
(* raises ValueError and the loader is not called.                          *)

C25_LoadDfTransactional ==
    /\ txn.pc = "raised" /\ txn.outcome = "DatabaseError" =>
          /\ table = txn.before
          /\ txn.ops = <<"load_df", "begin", "execute", "copy_expert", "rollback">>
    /\ txn.pc = "returned" /\ txn.df.rows # << >> =>
          /\ txn.outcome = "committed"
          /\ txn.ops = <<"load_df", "begin", "execute", "copy_expert", "commit">>
    /\ txn.pc = "returned" /\ txn.df.rows = << >> =>
          /\ txn.ops = <<"load_df">>
          /\ table = txn.before
    /\ txn.pc = "cleaned" => txn.ops = <<"load_df", "begin", "execute">>

C25_Witness ==
    /\ txn.pc = "raised"
    /\ txn.outcome = "DatabaseError"
    /\ ExecuteDelete(txn.before, txn.cleanup_params) # txn.before

====
